---- MODULE Spec2Model ----
(***************************************************************************)
(* A model of amazon-personalize-filter-rotator:                           *)
(*   template_evaluation.py  the domain functions, eval_expression and     *)
(*                           eval_template                                 *)
(*   filter_rotator.py       lambda_handler                                *)
(*                                                                         *)
(* Three specifications share the module:                                  *)
(*   Spec         one call of eval_template, one re.sub replacement per    *)
(*                step, the wall clock ticking in between                  *)
(*   SpecExpr     one call of eval_expression / of a domain function on    *)
(*                inputs drawn from bounded sets                           *)
(*   SpecHandler  one run of lambda_handler                                *)
(*                                                                         *)
(* A string is a sequence of symbols.  The braces "{" and "}" are single   *)
(* characters; an identifier ("now", "q") is one symbol, so that two       *)
(* adjacent identifier symbols read as one longer, unregistered name.      *)
(***************************************************************************)
EXTENDS Integers, Sequences, FiniteSets, TLC

VARIABLES
    \* ---- eval_template(s, names) ----
    template,   \* the argument s
    names,      \* the argument names (the empty mapping stands for None / {})
    clock,      \* the wall clock, read by datetime.datetime.now()
    clock0,     \* the wall clock when eval_template was entered
    text,       \* re.sub's subject: the output built so far, then the unscanned rest
    pos,        \* where re.sub resumes scanning in text
    calls,      \* the calls of eval_expression made so far: body, now, outcome
    pc,         \* "sub" | "returned" | "raised"
    result,     \* the returned string (NoResult before the return and on a raise)
    error,      \* the kind of the exception that left eval_template ("none": none)
    \* ---- eval_expression / domain functions on drawn inputs ----
    xin,        \* the input of the call
    xout,       \* its outcome
    xpc,        \* "call" | "done"
    \* ---- lambda_handler(event, _) ----
    event,      \* the rendered name and the templates of the event
    remote,     \* the filters list_filters returns
    hpc,        \* the handler's position
    idx,        \* the position of the for loop in filters_response['Filters']
    current_filter_name,
    current_filter_exists,
    delete_calls,   \* the positions of the filters delete_filter was called on
    create_calls,   \* the names create_filter was called with
    abort_at        \* where an exception left the handler ("none": nowhere)

tvars == <<template, names, clock, clock0, text, pos, calls, pc, result, error>>
xvars == <<xin, xout, xpc>>
hvars == <<event, remote, hpc, idx, current_filter_name, current_filter_exists,
           delete_calls, create_calls, abort_at>>
vars == <<tvars, xvars, hvars>>

-----------------------------------------------------------------------------
(* Bounds *)

MaxPieces == 4
MaxClock == 1
MaxStr == 3
MaxNum == 4
MaxFilters == 3

-----------------------------------------------------------------------------
(* Values and strings *)

NoResult == [type |-> "none"]
StrVal(s) == [type |-> "str", s |-> s]
DateTimeVal(t) == [type |-> "datetime", t |-> t]
ErrorVal(kind) == [type |-> "error", kind |-> kind]
NoNames == <<>>

RECURSIVE Flatten(_)
Flatten(ps) == IF ps = <<>> THEN <<>> ELSE Head(ps) \o Flatten(Tail(ps))

RECURSIVE Concat(_)
Concat(syms) == IF syms = <<>> THEN "" ELSE Head(syms) \o Concat(Tail(syms))

Identifiers == {"now", "q"}
Pieces ==
    {<<"{", "{">>, <<"}", "}">>, <<"{">>, <<"}">>, <<"now">>, <<"q">>,
     <<"{", "{", "now", "}", "}">>}
Templates == {Flatten(ps) : ps \in UNION {[1..n -> Pieces] : n \in 0..MaxPieces}}

\* str(v)
Str(v) ==
    CASE v.type = "str" -> v.s
      [] v.type = "datetime" -> <<ToString(v.t)>>
      [] OTHER -> <<v.type>>

-----------------------------------------------------------------------------
(* eval_expression: the registry and simple_eval's resolution of names *)

\* d.update(e)
DictUpdate(d, e) ==
    [k \in DOMAIN d \cup DOMAIN e |-> IF k \in DOMAIN e THEN e[k] ELSE d[k]]

\* simpleeval's DEFAULT_NAMES
DEFAULT_NAMES ==
    [k \in {"True", "False", "None"} |-> [type |-> "constant", id |-> k]]

\* simpleeval's DEFAULT_FUNCTIONS, each function standing for itself
DEFAULT_FUNCTIONS ==
    [k \in {"rand", "randint", "int", "float", "str"} |-> k]

DomainFunctions ==
    [k \in {"unixtime", "datetime_format", "starts_with", "ends_with", "start",
            "end", "timedelta_days", "timedelta_hours", "timedelta_minutes",
            "timedelta_seconds"} |-> "_" \o k]

\* functions = DEFAULT_FUNCTIONS.copy(); functions.update(unixtime=_unixtime, ...)
Functions == DictUpdate(DEFAULT_FUNCTIONS, DomainFunctions)

\* A faulty NamesCombined: the now binding is written after the caller's names.
NamesCombinedNowLast(caller, nowval) ==
    DictUpdate(DictUpdate(DEFAULT_NAMES, caller), [k \in {"now"} |-> nowval])

\* names_combined = DEFAULT_NAMES.copy(); names_combined.update(now=...);
\* if names: names_combined.update(names)
NamesCombined(caller, nowval) ==
    DictUpdate(DictUpdate(DEFAULT_NAMES, [k \in {"now"} |-> nowval]), caller)

\* simple_eval(s, functions=functions, names=names_combined) on a parsed
\* expression.  A name in value position is looked up in names and, failing
\* that, in functions; the callee of a call is looked up in functions alone;
\* True, False and None are constants of the grammar, never looked up.
SimpleEval(node, functions, names_combined) ==
    CASE node.kind = "Name" ->
            IF node.id \in DOMAIN names_combined THEN names_combined[node.id]
            ELSE IF node.id \in DOMAIN functions
                 THEN [type |-> "function", fn |-> functions[node.id]]
                 ELSE ErrorVal("NameNotDefined")
      [] node.kind = "Call" ->
            IF node.id \in DOMAIN functions
            THEN [type |-> "called", fn |-> functions[node.id]]
            ELSE ErrorVal("FunctionNotDefined")
      [] node.kind = "Constant" -> [type |-> "constant", id |-> node.id]
      [] OTHER -> ErrorVal(node.kind)

\* The parse of the body of a template region.  An empty body is no expression,
\* a brace makes the body unparsable (a body the pattern matches holds no "}",
\* so a "{" in it is never closed), and identifier symbols alone form one name.
ParseBody(body) ==
    IF body = <<>> THEN [kind |-> "InvalidExpression", id |-> ""]
    ELSE IF \E i \in DOMAIN body : body[i] \notin Identifiers
         THEN [kind |-> "SyntaxError", id |-> ""]
         ELSE [kind |-> "Name", id |-> Concat(body)]

\* A faulty NowBinding: the clock is read once, on entry to eval_template.
NowBindingAtEntry == clock0

\* now=datetime.datetime.now(): the clock as it is when the registry is built
NowBinding == clock

\* eval_expression with the clock reading t
EvalAt(body, caller, t) ==
    SimpleEval(ParseBody(body), Functions, NamesCombined(caller, DateTimeVal(t)))

eval_expression(body, caller) == EvalAt(body, caller, NowBinding)

-----------------------------------------------------------------------------
(* eval_template: re.sub of the pattern "{{", any run of characters other  *)
(* than "}", "}}", each match replaced by str(eval_expression(body, names))  *)

\* The first index k >= i of s with s[k] = "}", 0 when there is none
FirstClose(s, i) ==
    IF \E k \in i..Len(s) : s[k] = "}"
    THEN CHOOSE k \in i..Len(s) : s[k] = "}" /\ \A l \in i..(k - 1) : s[l] # "}"
    ELSE 0

\* A faulty BodyEnd, a lazy body of any characters: it ends at the next "}}".
BodyEndAtNextClosing(s, i) ==
    IF \E k \in i..(Len(s) - 1) : s[k] = "}" /\ s[k + 1] = "}"
    THEN CHOOSE k \in i..(Len(s) - 1) :
            /\ s[k] = "}" /\ s[k + 1] = "}"
            /\ \A l \in i..(k - 1) : ~(s[l] = "}" /\ s[l + 1] = "}")
    ELSE 0

\* The body and the closing "}}" from index i: the body runs to the first "}", which must open
\* a "}}".  The index of that "}", 0 when the pattern does not match.
BodyEnd(s, i) ==
    LET k == FirstClose(s, i)
    IN  IF k # 0 /\ k + 1 <= Len(s) /\ s[k + 1] = "}" THEN k ELSE 0

\* The pattern matched at index i: the index of the first closing brace, or 0
MatchAt(s, i) ==
    IF i + 1 <= Len(s) /\ s[i] = "{" /\ s[i + 1] = "{" THEN BodyEnd(s, i + 2) ELSE 0

NoMatch == [start |-> 0, end |-> 0, body |-> <<>>]

\* The leftmost match of the pattern in s at or after index from
FindMatch(s, from) ==
    IF \E i \in from..Len(s) : MatchAt(s, i) # 0
    THEN LET i == CHOOSE i \in from..Len(s) :
                    MatchAt(s, i) # 0 /\ \A l \in from..(i - 1) : MatchAt(s, l) = 0
             k == MatchAt(s, i)
         IN  [start |-> i, end |-> k + 1, body |-> SubSeq(s, i + 2, k - 1)]
    ELSE NoMatch

\* A faulty ResumeAt: the scan resumes where the replacement starts.
ResumeAtReplacement(start, n) == start

\* re.sub resumes after the replacement: the replacement is never scanned
ResumeAt(start, n) == start + n

\* A faulty Propagate: the exception is wrapped in one of the template's own.
PropagateWrapped(kind) == "TemplateSubstitutionError"

\* An exception of the callback leaves re.sub, and so eval_template, as it is
Propagate(kind) == kind

\* The names a caller of eval_template passes: none, or one whose value is
\* itself text in handlebars.
TemplateNames == {NoNames, [k \in {"q"} |-> StrVal(<<"{", "{", "now", "}", "}">>)]}

IdleExpr == xin = NoResult /\ xout = NoResult /\ xpc = "idle"

IdleHandler ==
    /\ event = NoResult /\ remote = <<>> /\ hpc = "idle" /\ idx = 0
    /\ current_filter_name = "" /\ current_filter_exists = FALSE
    /\ delete_calls = <<>> /\ create_calls = <<>> /\ abort_at = "none"

IdleTemplate ==
    /\ template = <<>> /\ names = NoNames /\ clock = 0 /\ clock0 = 0
    /\ text = <<>> /\ pos = 0 /\ calls = <<>> /\ pc = "idle"
    /\ result = NoResult /\ error = "none"

Init ==
    /\ template \in Templates
    /\ names \in TemplateNames
    /\ clock = 0
    /\ clock0 = clock
    /\ text = template
    /\ pos = 1
    /\ calls = <<>>
    /\ pc = "sub"
    /\ result = NoResult
    /\ error = "none"
    /\ IdleExpr
    /\ IdleHandler

\* The wall clock advances while eval_template runs.
Tick ==
    /\ pc = "sub"
    /\ clock < MaxClock
    /\ clock' = clock + 1
    /\ UNCHANGED <<template, names, clock0, text, pos, calls, pc, result, error>>
    /\ UNCHANGED <<xvars, hvars>>

\* re.sub finds the next match and calls the callback on it: eval_expression
\* builds its registry (reading the clock) and evaluates the body; the string
\* form of the value replaces the match, or the exception leaves eval_template.
SubMatch ==
    /\ pc = "sub"
    /\ LET m == FindMatch(text, pos)
           v == eval_expression(m.body, names)
           r == Str(v)
       IN  /\ m.start # 0
           /\ calls' = Append(calls, [body |-> m.body, now |-> NowBinding,
                                      err |-> IF v.type = "error" THEN v.kind ELSE "none"])
           /\ \/ /\ v.type = "error"
                 /\ pc' = "raised"
                 /\ error' = Propagate(v.kind)
                 /\ UNCHANGED <<text, pos, result>>
              \/ /\ v.type # "error"
                 /\ text' = SubSeq(text, 1, m.start - 1) \o r
                                \o SubSeq(text, m.end + 1, Len(text))
                 /\ pos' = ResumeAt(m.start, Len(r))
                 /\ UNCHANGED <<pc, result, error>>
    /\ UNCHANGED <<template, names, clock, clock0>>
    /\ UNCHANGED <<xvars, hvars>>

\* No match is left: re.sub returns the string it built.
SubReturn ==
    /\ pc = "sub"
    /\ FindMatch(text, pos).start = 0
    /\ pc' = "returned"
    /\ result' = StrVal(text)
    /\ UNCHANGED <<template, names, clock, clock0, text, pos, calls, error>>
    /\ UNCHANGED <<xvars, hvars>>

eval_template == SubMatch \/ SubReturn

Next == eval_template \/ Tick

Spec == Init /\ [][Next]_vars

-----------------------------------------------------------------------------
(* Properties of eval_template *)

ErrOf(v) == IF v.type = "error" THEN v.kind ELSE "none"

\* The bodies of the matches of the pattern in s from index from, left to right
RECURSIVE MatchBodies(_, _)
MatchBodies(s, from) ==
    LET m == FindMatch(s, from)
    IN  IF m.start = 0 THEN <<>> ELSE <<m.body>> \o MatchBodies(s, m.end + 1)

\* s from index from with its i-th and later matches replaced by the string
\* forms of the values the logged calls computed
RECURSIVE Substituted(_, _, _)
Substituted(s, from, i) ==
    LET m == FindMatch(s, from)
    IN  IF m.start = 0 \/ i > Len(calls) THEN SubSeq(s, from, Len(s))
        ELSE SubSeq(s, from, m.start - 1)
                \o Str(EvalAt(calls[i].body, names, calls[i].now))
                \o Substituted(s, m.end + 1, i + 1)

\* The regions of the specification: "{{", the shortest body before the next
\* "}}", and that "}}"
SpecMatchAt(s, i) ==
    IF i + 1 <= Len(s) /\ s[i] = "{" /\ s[i + 1] = "{"
    THEN BodyEndAtNextClosing(s, i + 2) ELSE 0

RECURSIVE SpecBodies(_, _)
SpecBodies(s, from) ==
    IF \E i \in from..Len(s) : SpecMatchAt(s, i) # 0
    THEN LET i == CHOOSE i \in from..Len(s) :
                    SpecMatchAt(s, i) # 0 /\ \A l \in from..(i - 1) : SpecMatchAt(s, l) = 0
             k == SpecMatchAt(s, i)
         IN  <<SubSeq(s, i + 2, k - 1)>> \o SpecBodies(s, k + 2)
    ELSE <<>>

\* s holds no "{{", run of characters other than "}", "}}"
NoRegion(s) ==
    ~ \E i \in 1..Len(s), k \in 1..Len(s) :
        /\ i + 2 <= k /\ k + 1 <= Len(s)
        /\ s[i] = "{" /\ s[i + 1] = "{" /\ s[k] = "}" /\ s[k + 1] = "}"
        /\ \A l \in (i + 2)..(k - 1) : s[l] # "}"

\* C1, as claimed: the embedded expressions of one render that read now all
\* see the same value.
C1_NowFixedPerRender ==
    \A i, j \in DOMAIN calls :
        (calls[i].body = <<"now">> /\ calls[j].body = <<"now">>)
            => calls[i].now = calls[j].now

\* C1, amended: every call of eval_expression made for a region binds now to
\* the wall clock as it is at that call, and an expression that is the name
\* now is replaced by the string form of that reading.
C1_NowReadPerRegion ==
    [][Len(calls') > Len(calls) =>
        LET m == FindMatch(text, pos)
        IN  /\ calls'[Len(calls')].now = clock
            /\ (m.body = <<"now">> /\ "now" \notin DOMAIN names)
                    => /\ pc' = "sub"
                       /\ SubSeq(text', m.start, m.start) = <<ToString(clock)>>]_vars

\* Two regions of one render saw two different values of now.
C1_Witness ==
    /\ pc = "returned"
    /\ Len(calls) = 2
    /\ calls[1].body = <<"now">> /\ calls[2].body = <<"now">>
    /\ calls[1].now # calls[2].now
    /\ result = StrVal(<<ToString(calls[1].now), ToString(calls[2].now)>>)

\* C2, as claimed: the evaluator is called on the bodies of the regions that
\* run from "{{" to the next "}}", in order, and on all of them when the
\* render returns.
C2_RegionsRunToNextClosing ==
    LET bodies == SpecBodies(template, 1)
    IN  /\ \A i \in DOMAIN calls : i <= Len(bodies) /\ calls[i].body = bodies[i]
        /\ pc = "returned" => Len(calls) = Len(bodies)

\* C3: once the evaluation of an embedded expression has failed, the render
\* has failed with the kind of error that evaluation raised and has returned
\* no string; a render that failed did so on its last evaluation.
C3_FailurePropagates ==
    /\ \A i \in DOMAIN calls :
            ErrOf(EvalAt(calls[i].body, names, calls[i].now)) # "none"
                => /\ i = Len(calls)
                   /\ pc = "raised"
                   /\ result = NoResult
                   /\ error = ErrOf(EvalAt(calls[i].body, names, calls[i].now))
    /\ pc = "raised" => result = NoResult /\ calls # <<>> /\ error # "none"
    /\ pc = "returned" => error = "none" /\ result.type = "str"

\* A render failed on its second region, the first one evaluated.
C3_Witness ==
    /\ pc = "raised"
    /\ Len(calls) = 2
    /\ calls[1].err = "none"
    /\ error = "NameNotDefined"
    /\ text # template

\* C7: the evaluator is called on the regions of the original template, once
\* each and in order, and the returned string is the original template with
\* each region replaced by the string form of its value, braces in that
\* string form included.
C7_SinglePass ==
    LET bodies == MatchBodies(template, 1)
    IN  /\ \A i \in DOMAIN calls : i <= Len(bodies) /\ calls[i].body = bodies[i]
        /\ pc = "returned" =>
                /\ Len(calls) = Len(bodies)
                /\ result = StrVal(Substituted(template, 1, 1))

\* A value whose string form is text in handlebars was substituted and returned
\* as it is.
C7_Witness ==
    /\ pc = "returned"
    /\ template = <<"{", "{", "q", "}", "}">>
    /\ Len(calls) = 1
    /\ result = StrVal(<<"{", "{", "now", "}", "}">>)

\* C8: a template without a region is returned as it is, whatever the names,
\* and neither is the evaluator called nor the clock read.
C8_NoRegionUnchanged ==
    NoRegion(template) =>
        /\ calls = <<>>
        /\ pc # "raised"
        /\ text = template
        /\ pc = "returned" => result = StrVal(template)
        /\ pc = "sub" => FindMatch(text, pos).start = 0

\* A template with braces and no region was returned, names passed.
C8_Witness ==
    /\ pc = "returned"
    /\ NoRegion(template)
    /\ names # NoNames
    /\ \E i \in 1..(Len(template) - 1) : template[i] = "{" /\ template[i + 1] = "{"
    /\ \E i \in 1..Len(template) : template[i] = "}"
    /\ result = StrVal(template)

-----------------------------------------------------------------------------
(* The domain functions _end and _unixtime, and eval_expression on parsed    *)
(* expressions                                                              *)

Abs(n) == IF n < 0 THEN -n ELSE n
Min(a, b) == IF a < b THEN a ELSE b
Max(a, b) == IF a > b THEN a ELSE b

\* s[start:], Python's slice from a possibly negative start to the end
SliceFrom(s, start) ==
    LET n == Len(s)
        first == IF start < 0 THEN Max(n + start, 0) ELSE Min(start, n)
    IN  SubSeq(s, first + 1, n)

\* _end(s, num): return s[-abs(num):]
End(s, num) == SliceFrom(s, -Abs(num))

\* dateutil's parse(s): a datetime, or a ParserError for text that is no date
Parse(s) ==
    CASE s = <<"1970-01-01T00:00:02Z">> -> DateTimeVal(2)
      [] s = <<"1970-01-01">> -> DateTimeVal(0)
      [] OTHER -> ErrorVal("ParserError")

\* value.timestamp(): datetime.datetime has the method; datetime.date and
\* datetime.time do not
Timestamp(value) ==
    IF value.type = "datetime" THEN [type |-> "float", v |-> value.t]
    ELSE ErrorVal("AttributeError")

\* _unixtime(s)
Unixtime(value) ==
    IF value.type = "str"
    THEN LET d == Parse(value.s)
         IN  IF d.type = "error" THEN d ELSE Timestamp(d)
    ELSE IF value.type \in {"time", "date", "datetime"}  \* a datetime is a date
         THEN Timestamp(value)
         ELSE value

Strings == UNION {[1..n -> {"a", "b"}] : n \in 0..MaxStr}

\* The values _unixtime is called on
UnixtimeValues ==
    {StrVal(<<"1970-01-01T00:00:02Z">>), StrVal(<<"1970-01-01">>), StrVal(<<"soon">>)}
        \cup {DateTimeVal(t) : t \in 0..MaxNum}
        \cup {[type |-> "date", day |-> d] : d \in 0..1}
        \cup {[type |-> "time", sec |-> x] : x \in 0..1}
        \cup {[type |-> "int", v |-> n] : n \in (-1)..MaxNum}
        \cup {[type |-> "float", v |-> n] : n \in 0..1}
        \cup {[type |-> "NoneType"], [type |-> "dict"]}

\* The names a caller of eval_expression passes, each bound to a value of the
\* caller's own
CallerIds == {"filter", "now", "True", "start", "unixtime"}
CallerNames ==
    UNION {[D -> {"caller"}] : D \in SUBSET CallerIds}
CallerValue(k) == [type |-> "caller", id |-> k]
Overlay(f) == [k \in DOMAIN f |-> CallerValue(k)]

\* Parsed expressions: a name in value position, a call of a name, and the
\* constants True, False and None
Nodes ==
    {[kind |-> kd, id |-> k] : kd \in {"Name", "Call"},
                                k \in {"filter", "now", "start", "unixtime", "x"}}
        \cup {[kind |-> "Constant", id |-> k] : k \in {"True", "False", "None"}}

ExprInputs ==
    {[op |-> "eval_expression", node |-> nd, names |-> Overlay(f)] :
            nd \in Nodes, f \in CallerNames}
        \cup {[op |-> "_end", s |-> s, num |-> n] :
                    s \in Strings, n \in (-MaxNum)..MaxNum}
        \cup {[op |-> "_unixtime", value |-> v] : v \in UnixtimeValues}

InitExpr ==
    /\ xin \in ExprInputs
    /\ xout = NoResult
    /\ xpc = "call"
    /\ IdleTemplate
    /\ IdleHandler

CallEvalExpression ==
    /\ xpc = "call"
    /\ xin.op = "eval_expression"
    /\ xout' = SimpleEval(xin.node, Functions,
                          NamesCombined(xin.names, DateTimeVal(NowBinding)))
    /\ xpc' = "done"
    /\ UNCHANGED <<xin, tvars, hvars>>

CallEnd ==
    /\ xpc = "call"
    /\ xin.op = "_end"
    /\ xout' = StrVal(End(xin.s, xin.num))
    /\ xpc' = "done"
    /\ UNCHANGED <<xin, tvars, hvars>>

CallUnixtime ==
    /\ xpc = "call"
    /\ xin.op = "_unixtime"
    /\ xout' = Unixtime(xin.value)
    /\ xpc' = "done"
    /\ UNCHANGED <<xin, tvars, hvars>>

NextExpr == CallEvalExpression \/ CallEnd \/ CallUnixtime

SpecExpr == InitExpr /\ [][NextExpr]_vars

\* C4, as claimed: every name the caller passes resolves to the caller's
\* value wherever the expression uses it, in value position or called.
C4_CallerNamesOverrideEverything ==
    (xpc = "done" /\ xin.op = "eval_expression" /\ xin.node.id \in DOMAIN xin.names)
        => xout = xin.names[xin.node.id]

\* C4, amended: a name the caller passes resolves to the caller's value when
\* the expression uses it in value position, the name now and the name of a
\* domain function included; the callee of a call is resolved among the
\* functions alone, and True, False and None are constants, whatever the
\* caller passes.
C4_CallerNamesOverrideNames ==
    (xpc = "done" /\ xin.op = "eval_expression") =>
        /\ (xin.node.kind = "Name" /\ xin.node.id \in DOMAIN xin.names)
                => xout = xin.names[xin.node.id]
        /\ (xin.node.kind = "Name" /\ xin.node.id = "now" /\ "now" \notin DOMAIN xin.names)
                => xout = DateTimeVal(clock)
        /\ xin.node.kind = "Call"
                => /\ xout.type # "caller"
                   /\ xin.node.id = "start" => xout = [type |-> "called", fn |-> "_start"]
                   /\ xin.node.id = "unixtime" => xout = [type |-> "called", fn |-> "_unixtime"]
                   /\ xin.node.id \in {"filter", "now", "x"} => xout = ErrorVal("FunctionNotDefined")
        /\ xin.node.kind = "Constant" => xout = [type |-> "constant", id |-> xin.node.id]

\* The caller passed now and start; the name now resolved to the caller's value.
C4_Witness ==
    /\ xpc = "done" /\ xin.op = "eval_expression"
    /\ xin.node = [kind |-> "Name", id |-> "now"]
    /\ DOMAIN xin.names = {"now", "start"}
    /\ xout = CallerValue("now")

\* C5, as claimed: end(s, n) is the last abs(n) characters of s, and its
\* length is min(abs(n), len(s)).
C5_EndIsLastAbsN ==
    (xpc = "done" /\ xin.op = "_end") =>
        LET n == Len(xin.s)
            k == Min(Abs(xin.num), n)
        IN  /\ Len(xout.s) = k
            /\ xout.s = SubSeq(xin.s, n - k + 1, n)

\* C6, as claimed: unixtime returns epoch seconds for a date, a time of day
\* and a date-time, and returns every value that is neither a string nor one
\* of these as it is.
C6_UnixtimeOfDateAndTime ==
    (xpc = "done" /\ xin.op = "_unixtime") =>
        /\ xin.value.type \in {"date", "time", "datetime"} => xout.type = "float"
        /\ xin.value.type \notin {"str", "date", "time", "datetime"} => xout = xin.value

-----------------------------------------------------------------------------
(* lambda_handler.  A template of the event stands for what it evaluates to: *)
(* the name template for the name it renders (or its failure), the           *)
(* expression template for whether it renders, the delete-match template for *)
(* the outcome of its evaluation on each filter ("T" truthy, "F" falsy, "E"  *)
(* an exception).                                                            *)

FilterNames == {"f1", "f2", "f3"}

DeleteTemplates ==
    {[empty |-> TRUE, eval |-> [n \in FilterNames |-> "F"]]}
        \cup {[empty |-> FALSE, eval |-> f] : f \in [FilterNames -> {"T", "F", "E"}]}

Events ==
    [currentFilterNameTemplate : FilterNames \cup {"error"},
     currentFilterExpressionTemplate : {"ok", "error"},
     deleteFilterMatchTemplate : DeleteTemplates]

\* The filters of the dataset group, as list_filters returns them: the ARN of
\* a filter is its position
FilterLists ==
    UNION {[1..n -> FilterNames] : n \in 0..MaxFilters}
Filter(i) == [name |-> remote[i], filterArn |-> i]

InitHandler ==
    /\ event \in Events
    /\ remote \in FilterLists
    /\ hpc = "render_name"
    /\ idx = 0
    /\ current_filter_name = ""
    /\ current_filter_exists = FALSE
    /\ delete_calls = <<>>
    /\ create_calls = <<>>
    /\ abort_at = "none"
    /\ IdleTemplate
    /\ IdleExpr

Abort(where) == hpc' = "aborted" /\ abort_at' = where

\* current_filter_name = eval_template(current_filter_name_template)
RenderName ==
    /\ hpc = "render_name"
    /\ \/ /\ event.currentFilterNameTemplate = "error"
          /\ Abort("render_name")
          /\ UNCHANGED current_filter_name
       \/ /\ event.currentFilterNameTemplate # "error"
          /\ current_filter_name' = event.currentFilterNameTemplate
          /\ hpc' = "list"
          /\ UNCHANGED abort_at
    /\ UNCHANGED <<event, remote, idx, current_filter_exists, delete_calls, create_calls>>
    /\ UNCHANGED <<tvars, xvars>>

\* filters_response = personalize.list_filters(...): the call returns or raises
ListFilters ==
    /\ hpc = "list"
    /\ \/ hpc' = "loop" /\ idx' = 1 /\ UNCHANGED abort_at
       \/ Abort("list_filters") /\ UNCHANGED idx
    /\ UNCHANGED <<event, remote, current_filter_name, current_filter_exists,
                   delete_calls, create_calls>>
    /\ UNCHANGED <<tvars, xvars>>

\* if filter['name'] == current_filter_name
IsCurrent(filter) == filter.name = current_filter_name

\* A faulty DeleteBranch: the elif is an if.
DeleteBranchOfIf(filter) == ~event.deleteFilterMatchTemplate.empty

\* elif delete_filter_match_template
DeleteBranch(filter) == ~IsCurrent(filter) /\ ~event.deleteFilterMatchTemplate.empty

\* delete_match = eval_expression(delete_filter_match_template, {'filter': filter})
DeleteMatch(filter) == event.deleteFilterMatchTemplate.eval[filter.name]

\* One iteration of the for loop over filters_response['Filters']
LoopStep ==
    /\ hpc = "loop"
    /\ idx <= Len(remote)
    /\ LET filter == Filter(idx)
       IN  \/ /\ IsCurrent(filter)
              /\ current_filter_exists' = TRUE
              /\ idx' = idx + 1
              /\ UNCHANGED <<hpc, abort_at, delete_calls>>
           \/ /\ DeleteBranch(filter)
              /\ DeleteMatch(filter) = "E"
              /\ Abort("delete_match")
              /\ UNCHANGED <<idx, current_filter_exists, delete_calls>>
           \/ /\ DeleteBranch(filter)
              /\ DeleteMatch(filter) = "T"
              /\ delete_calls' = Append(delete_calls, filter.filterArn)
              /\ \/ idx' = idx + 1 /\ UNCHANGED <<hpc, abort_at>>
                 \/ Abort("delete_filter") /\ UNCHANGED idx
              /\ UNCHANGED current_filter_exists
           \/ /\ ~IsCurrent(filter)
              /\ ~DeleteBranch(filter) \/ DeleteMatch(filter) = "F"
              /\ idx' = idx + 1
              /\ UNCHANGED <<hpc, abort_at, current_filter_exists, delete_calls>>
    /\ UNCHANGED <<event, remote, current_filter_name, create_calls>>
    /\ UNCHANGED <<tvars, xvars>>

\* A faulty CreateBranch: the filter is created whether or not it exists.
CreateBranchAlways == TRUE

\* if not current_filter_exists
CreateBranch == ~current_filter_exists

\* After the loop: the expression template is rendered and create_filter called
AfterLoop ==
    /\ hpc = "loop"
    /\ idx > Len(remote)
    /\ \/ /\ ~CreateBranch
          /\ hpc' = "done"
          /\ UNCHANGED <<abort_at, create_calls>>
       \/ /\ CreateBranch
          /\ event.currentFilterExpressionTemplate = "error"
          /\ Abort("render_expression")
          /\ UNCHANGED create_calls
       \/ /\ CreateBranch
          /\ event.currentFilterExpressionTemplate # "error"
          /\ create_calls' = Append(create_calls, current_filter_name)
          /\ \/ hpc' = "done" /\ UNCHANGED abort_at
             \/ Abort("create_filter")
    /\ UNCHANGED <<event, remote, idx, current_filter_name, current_filter_exists,
                   delete_calls>>
    /\ UNCHANGED <<tvars, xvars>>

lambda_handler == RenderName \/ ListFilters \/ LoopStep \/ AfterLoop

NextHandler == lambda_handler

SpecHandler == InitHandler /\ [][NextHandler]_vars

\* The listed filter at position i has another name than the current one and
\* a non-empty delete-match template evaluates to a truthy value on it
Deletable(i) ==
    /\ remote[i] # current_filter_name
    /\ ~event.deleteFilterMatchTemplate.empty
    /\ event.deleteFilterMatchTemplate.eval[remote[i]] = "T"

\* The positions among the first n that are Deletable, in order
RECURSIVE DeletableUpTo(_)
DeletableUpTo(n) ==
    IF n = 0 THEN <<>>
    ELSE DeletableUpTo(n - 1) \o (IF Deletable(n) THEN <<n>> ELSE <<>>)

NoCurrentListed == \A i \in DOMAIN remote : remote[i] # current_filter_name

\* C9: delete_filter is called only on listed filters of another name than
\* the current filter's on which a non-empty delete-match template evaluates
\* to a truthy value, and on those among the filters examined so far without
\* an exception, once each and in order.
C9_DeleteOnlyMatchingOthers ==
    /\ \A k \in DOMAIN delete_calls :
            delete_calls[k] \in DOMAIN remote /\ Deletable(delete_calls[k])
    /\ hpc \in {"loop", "done"} => delete_calls = DeletableUpTo(idx - 1)

\* The current filter is listed and the delete-match expression is truthy on
\* it; another filter was deleted, the current one was not.
C9_Witness ==
    /\ hpc = "done"
    /\ delete_calls # <<>>
    /\ ~event.deleteFilterMatchTemplate.empty
    /\ event.deleteFilterMatchTemplate.eval[current_filter_name] = "T"
    /\ \E i \in DOMAIN remote : remote[i] = current_filter_name

\* C10, as claimed: create_filter is called at most once, after every listed
\* filter was examined, and exactly when no listed filter has the current
\* name; a failing delete-match evaluation aborts the run without the call,
\* the deletions issued before it standing.
C10_CreateExactlyWhenNotListed ==
    /\ Len(create_calls) <= 1
    /\ create_calls # <<>> => idx > Len(remote)
    /\ abort_at = "delete_match" =>
            create_calls = <<>> /\ delete_calls = DeletableUpTo(idx - 1)
    /\ (hpc \in {"done", "aborted"}
            /\ abort_at \notin {"render_name", "list_filters", "delete_match"})
        => (create_calls # <<>> <=> NoCurrentListed)

\* C10, amended: create_filter is called at most once, with the current name,
\* after every listed filter was examined and every deletion issued, and only
\* when no listed filter has the current name; a run that ends without an
\* exception has called it exactly when no listed filter has the current
\* name; a failing delete-match evaluation, delete_filter call or render of
\* the expression template aborts the run without the call, the deletions
\* issued before it standing.
C10_CreateWhenNotListedAndNoException ==
    /\ Len(create_calls) <= 1
    /\ create_calls # <<>> =>
            /\ idx > Len(remote)
            /\ NoCurrentListed
            /\ create_calls = <<current_filter_name>>
            /\ delete_calls = DeletableUpTo(Len(remote))
    /\ hpc = "done" => (create_calls # <<>> <=> NoCurrentListed)
    /\ abort_at \in {"delete_match", "delete_filter", "render_expression"} =>
            /\ hpc = "aborted"
            /\ create_calls = <<>>
    /\ abort_at \in {"delete_match", "render_expression"} =>
            delete_calls = DeletableUpTo(idx - 1)
    /\ abort_at = "delete_filter" =>
            delete_calls = DeletableUpTo(idx)

\* A delete-match evaluation failed after a deletion: no create_filter call,
\* the deletion stands.
C10_Witness ==
    /\ hpc = "aborted"
    /\ abort_at = "delete_match"
    /\ delete_calls # <<>>
    /\ create_calls = <<>>
    /\ NoCurrentListed

====
